---- MODULE Spec2Model ----
(***************************************************************************)
(* BookVerse review platform: the Book and Review stores and the request   *)
(* handlers of routes/books.js and routes/reviews.js.                      *)
(*                                                                         *)
(* Every handler is an async function: each `await` on a store operation   *)
(* is a point where another request may run, so each store operation is    *)
(* one atomic step and a handler is a sequence of steps driven by pc.      *)
(*                                                                         *)
(* communityRating is kept in tenths: the value 45 stands for 4.5.         *)
(* reviewContent is kept as the length of the trimmed text.                *)
(***************************************************************************)
EXTENDS Integers, FiniteSets, TLC

\* ------------------------------------------------------------------ bounds
MaxBooks == 2
MaxReviews == 3
MaxRequests == 4
MaxSeqRequests == 4
MaxPages == 9

\* ------------------------------------------------------- program constants
MinRating == 1
MaxRating == 5
RouteTextMin == 1
RouteTextMax == 500
SchemaTextMin == 10
SchemaTextMax == 1000
DefaultPage == 1
DefaultLimit == 5
maxVisiblePages == 5

\* ------------------------------------------------------------ input sets
Procs == {1, 2}
SeqProcs == {1}
Users == {"u1", "u2", "u3"}
RaceUsers == {"u1", "u2"}
BookIds == 1..MaxBooks
ReviewIds == 1..MaxReviews
RatingInputs == {4, 5, 6}
TextInputs == {5, 12}
RaceRatings == {4, 5}
RaceTexts == {12}
Absent == 0
NoGenre == "none"

\* body('genre').isIn([...]) of routes/books.js
RouteGenres == {"Fiction", "Non-Fiction", "Mystery", "Romance", "Sci-Fi", "Fantasy",
                "Biography", "History", "Self-Help", "Other"}

\* literaryGenre: enum values of the Book schema
SchemaGenres == {"Fiction", "Non-Fiction", "Mystery", "Romance", "Sci-Fi", "Fantasy",
                 "Biography", "History", "Self-Help", "Technology", "Poetry", "Drama",
                 "Other"}

\* genres sent in request bodies; "Limerick" is in neither list
CreateGenres == {"Fiction", "Limerick"}
UpdateGenres == {"Mystery", "Limerick"}

\* Reviews are created with one rating and text and patched with others, so
\* that a stored value tells which request wrote it
CreatedRatings == {4}
CreatedTexts == {12}
PatchRatings == {5}
PatchTexts == {20}

\* a communityRating (tenths) a client puts in the body of a Book request
AggregateInputs == {50}

\* GET /api/books: the page and limit query parameters (Absent: not given, or
\* given as 0 or as text parseInt makes NaN of, which || replaces alike) and
\* the genre parameter (NoGenre: not given)
PageInputs == {Absent, 1, 2}
LimitInputs == {Absent, 1, 2}
GenreFilters == {NoGenre, "All", "Fiction"}

\* the genres of the Books that are listed, and the genre of the documented
\* Add New Book example
ListedGenres == {"Fiction", "Mystery", "Technology"}
ListUsers == {"u1"}

VARIABLES strictQuery, books, reviews, nextBookId, nextReviewId,
          pc, req, local, resp, nreq

vars == <<strictQuery, books, reviews, nextBookId, nextReviewId,
          pc, req, local, resp, nreq>>

db == <<books, reviews, nextBookId, nextReviewId>>

\* ------------------------------------------------------------- documents
NoReq == [kind |-> "none", user |-> "none", book |-> 0, review |-> 0,
          rating |-> Absent, text |-> Absent, genre |-> NoGenre, aggregate |-> Absent,
          page |-> Absent, limit |-> Absent]

\* the pagination object of a GET /api/books response, before it is computed
NoPagination == [currentPage |-> 0, totalPages |-> 0, totalBooks |-> 0,
                 hasNext |-> FALSE, hasPrev |-> FALSE]

NoDoc == [communityRating |-> -1, reviewCount |-> -1]

\* a handler's local variables, and six history fields that no handler reads:
\* alone (no other request has been in progress since this one arrived),
\* stale (the Book's aggregate was out of date when this one arrived),
\* raced (this createReview and another for the same pair were both past the
\* duplicate lookup with neither Review stored yet), cascaded (this
\* deleteBook has run its Review.deleteMany), mutations (the Review store
\* operations of this request that changed the store) and updaterRuns (the
\* times this request has entered updateBookRating); and startPage, endPage
\* and pages, which the Pagination component computes from the pagination it
\* is given
NoLocal == [bookId |-> 0, hookBook |-> NoDoc, totalReviews |-> 0,
            averageRating |-> 0, updatedReview |-> FALSE,
            transformedBooks |-> {}, pagination |-> NoPagination,
            alone |-> FALSE, stale |-> FALSE, raced |-> FALSE, cascaded |-> FALSE,
            mutations |-> 0, updaterRuns |-> 0,
            startPage |-> 0, endPage |-> 0, pages |-> {}]

\* new Book({ bookTitle, authorName, bookSummary, literaryGenre,
\* publicationYear, sharedBy }): literaryGenre stands for the fields a client
\* may set; communityRating and reviewCount take the schema defaults
NewBook(u, g) ==
    [sharedBy |-> u, literaryGenre |-> g, communityRating |-> 0, reviewCount |-> 0]

\* new Review({reviewedBook, reviewAuthor, starRating, reviewContent})
NewReview(b, u, r, t) ==
    [reviewedBook |-> b, reviewAuthor |-> u, starRating |-> r, reviewContent |-> t]

\* ------------------------------------------------------------- validators
\* body("rating").isInt({ min: 1, max: 5 })
RouteRatingOk(r) == r \in MinRating..MaxRating

\* body("reviewText").trim().isLength({ min: 1, max: 500 })
RouteTextOk(t) == t \in RouteTextMin..RouteTextMax

\* starRating: min 1, max 5, Number.isInteger
SchemaRatingOk(r) == r \in MinRating..MaxRating

\* reviewContent: minlength 10, maxlength 1000
SchemaTextOk(t) == t \in SchemaTextMin..SchemaTextMax

\* ---------------------------------------------------------------- queries
\* Review.findOne({ reviewedBook: bookId, reviewAuthor: user })
ReviewsOfPair(b, u) ==
    {i \in DOMAIN reviews : reviews[i].reviewedBook = b /\ reviews[i].reviewAuthor = u}

\* review.reviewedBook of the Review found by id (0: none found)
ReviewedBook(i) == IF i \in DOMAIN reviews THEN reviews[i].reviewedBook ELSE 0

\* A filter on `bookId`, a path the Review schema does not declare.  With
\* strictQuery the path is stripped and the filter is empty (every Review
\* matches); without it the filter is sent as written and matches nothing.
ReviewsByBookId(b) == IF strictQuery THEN DOMAIN reviews ELSE {}

\* the filter of updateBookRating written with the path of recalculateRating
ReviewsOfBookByBookId(b) == ReviewsByBookId(b)

\* Review.find({ reviewedBook: bookId })
ReviewsOfBook(b) == {i \in DOMAIN reviews : reviews[i].reviewedBook = b}

RECURSIVE SumRatings(_)
SumRatings(S) ==
    IF S = {} THEN 0
    ELSE LET i == CHOOSE x \in S : TRUE
         IN reviews[i].starRating + SumRatings(S \ {i})

\* Math.floor in place of Math.round
TruncatedMean(sum, n) == IF n > 0 THEN (10 * sum) \div n ELSE 0

\* Math.round(averageRating * 10) / 10, in tenths; Math.round rounds half up
RoundedMean(sum, n) == IF n > 0 THEN (20 * sum + n) \div (2 * n) ELSE 0

\* ------------------------------------------------------------------ store
\* findByIdAndUpdate given the whole body: fields the patch lacks are unset
PatchOverwriting(doc, r, t) == [doc EXCEPT !.starRating = r, !.reviewContent = t]

\* { $set: updateData }: updateData has starRating when the body has a
\* rating and reviewContent when it has a reviewText
Patch(doc, r, t) ==
    [doc EXCEPT !.starRating = IF r # Absent THEN r ELSE @,
                !.reviewContent = IF t # Absent THEN t ELSE @]

\* the schema without its unique index
NoUniqueIndex(b, u) == TRUE

\* the unique index one_review_per_user_per_book
UniqueIndexOk(b, u) == ReviewsOfPair(b, u) = {}

Remove(f, S) == [x \in DOMAIN f \ S |-> f[x]]

\* --------------------------------------------------------------- plumbing
Goto(p, label) == pc' = [pc EXCEPT ![p] = label]

Respond(p, r) == /\ pc' = [pc EXCEPT ![p] = "done"]
                 /\ resp' = [resp EXCEPT ![p] = r]

AllIdle == \A q \in Procs : pc[q] = "idle"

\* no handler is between its arrival and its response
Quiet == \A q \in Procs : pc[q] \in {"idle", "done"}

\* the stored Reviews that reference Book b, read off the store directly
Referencing(b) == {i \in ReviewIds : i \in DOMAIN reviews /\ reviews[i].reviewedBook = b}

RECURSIVE RatingTotal(_, _)
RatingTotal(b, k) ==
    IF k = 0 THEN 0
    ELSE RatingTotal(b, k - 1) + (IF k \in Referencing(b) THEN reviews[k].starRating ELSE 0)

\* reviewCount is the number of Reviews referencing b
CountRight(b) == books[b].reviewCount = Cardinality(Referencing(b))

\* communityRating (tenths) is a tenth nearest to the mean: 0 with no Review,
\* else |communityRating / 10 - total / n| <= 1 / 20
MeanRight(b) ==
    LET n == Cardinality(Referencing(b))
        d == books[b].communityRating * n - 10 * RatingTotal(b, MaxReviews)
    IN IF n = 0 THEN books[b].communityRating = 0
       ELSE 2 * d <= n /\ -2 * d <= n

Stale(b) == b \in DOMAIN books /\ ~(CountRight(b) /\ MeanRight(b))

Init ==
    /\ strictQuery \in BOOLEAN
    /\ books = <<>>
    /\ reviews = <<>>
    /\ nextBookId = 1
    /\ nextReviewId = 1
    /\ pc = [p \in Procs |-> "idle"]
    /\ req = [p \in Procs |-> NoReq]
    /\ local = [p \in Procs |-> NoLocal]
    /\ resp = [p \in Procs |-> "none"]
    /\ nreq = 0

\* A request arrives at an idle slot; b is the Book its handler will hand to
\* updateBookRating (req.body.bookId, or the reviewedBook of the Review found).
Arrive(p, r, b) ==
    /\ pc[p] = "idle"
    /\ req' = [req EXCEPT ![p] = r]
    /\ local' = [q \in Procs |->
                   IF q = p
                   THEN [NoLocal EXCEPT !.bookId = b, !.alone = Quiet, !.stale = Stale(b)]
                   ELSE IF pc[q] \in {"idle", "done"} THEN local[q]
                   ELSE [local[q] EXCEPT !.alone = FALSE]]
    /\ nreq' = nreq + 1

\* The handler has sent its response; the slot is free again.
Return(p) ==
    /\ pc[p] = "done"
    /\ pc' = [pc EXCEPT ![p] = "idle"]
    /\ req' = [req EXCEPT ![p] = NoReq]
    /\ local' = [local EXCEPT ![p] = NoLocal]
    /\ resp' = [resp EXCEPT ![p] = "none"]
    /\ UNCHANGED <<strictQuery, db, nreq>>

\* ------------------------------------------------------- POST /api/books
\* createReview requests that may still take a fresh id
PendingReviews ==
    Cardinality({q \in Procs :
        pc[q] \in {"c_findExisting", "c_validate", "c_insert"}})

\* validation of the body, then new Book from the six named fields (a is a
\* communityRating the body may carry besides them) and await book.save()
CreateBookWith(p, u, g, a) ==
    /\ nextBookId <= MaxBooks
    /\ Arrive(p, [NoReq EXCEPT !.kind = "createBook", !.user = u,
                               !.genre = g, !.aggregate = a], 0)
    /\ IF g \notin RouteGenres
       THEN Respond(p, "400 validation") /\ UNCHANGED <<books, nextBookId>>
       ELSE IF g \notin SchemaGenres
       THEN Respond(p, "500") /\ UNCHANGED <<books, nextBookId>>
       ELSE /\ books' = books @@ (nextBookId :> NewBook(u, g))
            /\ nextBookId' = nextBookId + 1
            /\ Respond(p, "201")
    /\ UNCHANGED <<strictQuery, reviews, nextReviewId>>

\* a createBook with a valid body and nothing besides the named fields
CreateBook(p, u) == CreateBookWith(p, u, "Fiction", Absent)

\* -------------------------------------------------- PUT /api/books/:id
\* the handler without its creator check
StartUpdateBookAnyUser(p, u, b, g, a) ==
    /\ Arrive(p, [NoReq EXCEPT !.kind = "updateBook", !.user = u, !.book = b,
                               !.genre = g, !.aggregate = a], 0)
    /\ IF g # NoGenre /\ g \notin RouteGenres THEN Respond(p, "400 validation")
       ELSE IF b \notin DOMAIN books THEN Respond(p, "404")
       ELSE Goto(p, "bu_update") /\ resp' = resp
    /\ UNCHANGED <<strictQuery, db>>

\* the express-validator checks, const book = await Book.findById(id), then
\* the creator check
StartUpdateBook(p, u, b, g, a) ==
    /\ Arrive(p, [NoReq EXCEPT !.kind = "updateBook", !.user = u, !.book = b,
                               !.genre = g, !.aggregate = a], 0)
    /\ IF g # NoGenre /\ g \notin RouteGenres THEN Respond(p, "400 validation")
       ELSE IF b \notin DOMAIN books THEN Respond(p, "404")
       ELSE IF books[b].sharedBy # u THEN Respond(p, "403")
       ELSE Goto(p, "bu_update") /\ resp' = resp
    /\ UNCHANGED <<strictQuery, db>>

\* an update that $sets the whole request body
UpdateBookWriteBody(p) ==
    /\ pc[p] = "bu_update"
    /\ LET b == req[p].book
           g == req[p].genre
           a == req[p].aggregate
       IN IF b \in DOMAIN books
          THEN /\ books' = [books EXCEPT
                              ![b].literaryGenre = IF g # NoGenre THEN g ELSE @,
                              ![b].communityRating = IF a # Absent THEN a ELSE @]
               /\ Respond(p, "200")
          ELSE /\ books' = books
               /\ Respond(p, "500")
    /\ UNCHANGED <<strictQuery, reviews, nextBookId, nextReviewId, req, local, nreq>>

\* const updatedBook = await Book.findByIdAndUpdate(id, { $set: updateData },
\* { new: true, runValidators: true }); updateData holds the named fields
\* the body has; updatedBook.toObject() throws when no Book was found
UpdateBookWrite(p) ==
    /\ pc[p] = "bu_update"
    /\ LET b == req[p].book
           g == req[p].genre
       IN IF b \in DOMAIN books /\ (g = NoGenre \/ g \in SchemaGenres)
          THEN /\ books' = [books EXCEPT
                              ![b].literaryGenre = IF g # NoGenre THEN g ELSE @]
               /\ Respond(p, "200")
          ELSE /\ books' = books
               /\ Respond(p, "500")
    /\ UNCHANGED <<strictQuery, reviews, nextBookId, nextReviewId, req, local, nreq>>

\* --------------------------------------------------- updateBookRating
\* updateBookRating called without await: the handler responds while the
\* recomputation is still to write
UpdateBookRatingFindNotAwaited(p) ==
    /\ pc[p] = "ubr_find"
    /\ Respond(p, IF req[p].kind = "createReview" THEN "201" ELSE "200")
    /\ UNCHANGED <<strictQuery, db, req, local, nreq>>

\* const reviews = await Review.find({ reviewedBook: bookId }); the count
\* and the rounded mean are computed from what this read returned
UpdateBookRatingFind(p) ==
    /\ pc[p] = "ubr_find"
    /\ LET found == ReviewsOfBook(local[p].bookId)
           n == Cardinality(found)
       IN local' = [local EXCEPT ![p].totalReviews = n,
                                 ![p].averageRating = RoundedMean(SumRatings(found), n),
                                 ![p].updaterRuns = @ + 1]
    /\ Goto(p, "ubr_write")
    /\ UNCHANGED <<strictQuery, db, req, resp, nreq>>

\* what each handler sends after updateBookRating has returned
SuccessResponse(p) ==
    IF req[p].kind = "createReview" THEN "201"
    ELSE IF req[p].kind = "updateReview" /\ ~local[p].updatedReview THEN "500"
    ELSE "200"

\* an update that leaves reviewCount out
UpdateBookRatingWriteRatingOnly(p) ==
    /\ pc[p] = "ubr_write"
    /\ LET b == local[p].bookId
       IN books' = IF b \in DOMAIN books
                   THEN [books EXCEPT ![b].communityRating = local[p].averageRating]
                   ELSE books
    /\ Respond(p, SuccessResponse(p))
    /\ UNCHANGED <<strictQuery, reviews, nextBookId, nextReviewId, req, local, nreq>>

\* an update whose filter matches every Book
UpdateBookRatingWriteAllBooks(p) ==
    /\ pc[p] = "ubr_write"
    /\ books' = [b \in DOMAIN books |->
                   [books[b] EXCEPT !.communityRating = local[p].averageRating,
                                    !.reviewCount = local[p].totalReviews]]
    /\ Respond(p, SuccessResponse(p))
    /\ UNCHANGED <<strictQuery, reviews, nextBookId, nextReviewId, req, local, nreq>>

\* an update with { upsert: true }: a Book record is made when none is found
UpdateBookRatingWriteUpsert(p) ==
    /\ pc[p] = "ubr_write"
    /\ LET b == local[p].bookId
           doc == [NewBook("none", NoGenre) EXCEPT
                     !.communityRating = local[p].averageRating,
                     !.reviewCount = local[p].totalReviews]
       IN books' = IF b \in DOMAIN books
                   THEN [books EXCEPT ![b].communityRating = local[p].averageRating,
                                      ![b].reviewCount = local[p].totalReviews]
                   ELSE books @@ (b :> doc)
    /\ Respond(p, SuccessResponse(p))
    /\ UNCHANGED <<strictQuery, reviews, nextBookId, nextReviewId, req, local, nreq>>

\* a handler that calls updateBookRating a second time before it responds
UpdateBookRatingWriteTwice(p) ==
    /\ pc[p] = "ubr_write"
    /\ LET b == local[p].bookId
       IN books' = IF b \in DOMAIN books
                   THEN [books EXCEPT ![b].communityRating = local[p].averageRating,
                                      ![b].reviewCount = local[p].totalReviews]
                   ELSE books
    /\ IF local[p].updaterRuns < 2
       THEN Goto(p, "ubr_find") /\ resp' = resp
       ELSE Respond(p, SuccessResponse(p))
    /\ UNCHANGED <<strictQuery, reviews, nextBookId, nextReviewId, req, local, nreq>>

\* await Book.findByIdAndUpdate(bookId, { communityRating, reviewCount })
UpdateBookRatingWrite(p) ==
    /\ pc[p] = "ubr_write"
    /\ LET b == local[p].bookId
       IN books' = IF b \in DOMAIN books
                   THEN [books EXCEPT ![b].communityRating = local[p].averageRating,
                                      ![b].reviewCount = local[p].totalReviews]
                   ELSE books
    /\ Respond(p, SuccessResponse(p))
    /\ UNCHANGED <<strictQuery, reviews, nextBookId, nextReviewId, req, local, nreq>>

\* ------------------------------- Review post('save') / post('findOneAndDelete')
\* const book = await Book.findById(this.reviewedBook); if (book) ...
HookFindBook(p) ==
    /\ pc[p] = "hook_findBook"
    /\ LET b == local[p].bookId
       IN IF b \in DOMAIN books
          THEN /\ local' = [local EXCEPT ![p].hookBook =
                              [communityRating |-> books[b].communityRating,
                               reviewCount |-> books[b].reviewCount]]
               /\ Goto(p, "recalc_find")
          ELSE /\ local' = local
               /\ Goto(p, "ubr_find")
    /\ UNCHANGED <<strictQuery, db, req, resp, nreq>>

\* recalculateRating: const reviews = await Review.find({ bookId: this._id }).
\* With none found both fields are assigned 0; otherwise the sum over
\* review.rating (undefined) is NaN, the assignment fails to cast, save()
\* rejects and the hook logs the error.
RecalculateRatingFind(p) ==
    /\ pc[p] = "recalc_find"
    /\ IF ReviewsByBookId(local[p].bookId) = {}
       THEN Goto(p, "recalc_save")
       ELSE Goto(p, "ubr_find")
    /\ UNCHANGED <<strictQuery, db, req, local, resp, nreq>>

\* return this.save(): the paths whose value changed are written; a Book
\* that is gone makes save() reject, which the hook logs.
RecalculateRatingSave(p) ==
    /\ pc[p] = "recalc_save"
    /\ LET b == local[p].bookId
           doc == local[p].hookBook
       IN books' = IF b \in DOMAIN books
                   THEN [books EXCEPT
                           ![b].communityRating =
                               IF doc.communityRating # 0 THEN 0 ELSE @,
                           ![b].reviewCount =
                               IF doc.reviewCount # 0 THEN 0 ELSE @]
                   ELSE books
    /\ Goto(p, "ubr_find")
    /\ UNCHANGED <<strictQuery, reviews, nextBookId, nextReviewId, req, local, resp, nreq>>

\* ----------------------------------------------------- POST /api/reviews
\* the handler without its Book lookup
StartCreateReviewNoLookup(p, u, b, r, t) ==
    /\ nextReviewId + PendingReviews <= MaxReviews
    /\ Arrive(p, [NoReq EXCEPT !.kind = "createReview", !.user = u,
                               !.book = b, !.rating = r, !.text = t], b)
    /\ IF ~(RouteRatingOk(r) /\ RouteTextOk(t)) THEN Respond(p, "400 validation")
       ELSE Goto(p, "c_findExisting") /\ resp' = resp
    /\ UNCHANGED <<strictQuery, db>>

\* the express-validator checks, then const book = await Book.findById(bookId)
StartCreateReview(p, u, b, r, t) ==
    /\ nextReviewId + PendingReviews <= MaxReviews
    /\ Arrive(p, [NoReq EXCEPT !.kind = "createReview", !.user = u,
                               !.book = b, !.rating = r, !.text = t], b)
    /\ IF ~(RouteRatingOk(r) /\ RouteTextOk(t)) THEN Respond(p, "400 validation")
       ELSE IF b \notin DOMAIN books THEN Respond(p, "404")
       ELSE Goto(p, "c_findExisting") /\ resp' = resp
    /\ UNCHANGED <<strictQuery, db>>

\* the handler without its duplicate lookup
CreateReviewSkipExisting(p) ==
    /\ pc[p] = "c_findExisting"
    /\ Goto(p, "c_validate")
    /\ UNCHANGED <<strictQuery, db, req, local, resp, nreq>>

\* the createReview requests for the pair of p that are past the lookup and
\* have not yet inserted
Rivals(p) ==
    {q \in Procs \ {p} :
        /\ req[q].kind = "createReview"
        /\ req[q].book = req[p].book /\ req[q].user = req[p].user
        /\ pc[q] \in {"c_validate", "c_insert"}}

\* const existingReview = await Review.findOne({ reviewedBook, reviewAuthor })
CreateReviewFindExisting(p) ==
    /\ pc[p] = "c_findExisting"
    /\ IF ReviewsOfPair(req[p].book, req[p].user) = {}
       THEN /\ Goto(p, "c_validate") /\ resp' = resp
            /\ local' = [q \in Procs |->
                           IF Rivals(p) # {} /\ q \in Rivals(p) \cup {p}
                           THEN [local[q] EXCEPT !.raced = TRUE]
                           ELSE local[q]]
       ELSE Respond(p, "400 duplicate") /\ local' = local
    /\ UNCHANGED <<strictQuery, db, req, nreq>>

\* review.save(), first part: the schema validators (reviewedBook must be
\* found by Book.findById; starRating; reviewContent)
CreateReviewValidate(p) ==
    /\ pc[p] = "c_validate"
    /\ IF /\ req[p].book \in DOMAIN books
          /\ SchemaRatingOk(req[p].rating)
          /\ SchemaTextOk(req[p].text)
       THEN Goto(p, "c_insert") /\ resp' = resp
       ELSE Respond(p, "500")
    /\ UNCHANGED <<strictQuery, db, req, local, nreq>>

\* a rejected insert that is swallowed: the handler goes on as after a save
CreateReviewInsertSwallowed(p) ==
    /\ pc[p] = "c_insert"
    /\ IF UniqueIndexOk(req[p].book, req[p].user)
       THEN /\ reviews' = reviews @@ (nextReviewId :>
                  NewReview(req[p].book, req[p].user, req[p].rating, req[p].text))
            /\ nextReviewId' = nextReviewId + 1
       ELSE UNCHANGED <<reviews, nextReviewId>>
    /\ Goto(p, "hook_findBook")
    /\ UNCHANGED <<strictQuery, books, nextBookId, req, local, resp, nreq>>

\* review.save(), second part: the insert, rejected by the unique index
\* when the pair is taken; the post('save') hook follows a stored Review
CreateReviewInsert(p) ==
    /\ pc[p] = "c_insert"
    /\ IF UniqueIndexOk(req[p].book, req[p].user)
       THEN /\ reviews' = reviews @@ (nextReviewId :>
                  NewReview(req[p].book, req[p].user, req[p].rating, req[p].text))
            /\ nextReviewId' = nextReviewId + 1
            /\ local' = [local EXCEPT ![p].mutations = @ + 1]
            /\ Goto(p, "hook_findBook") /\ resp' = resp
       ELSE /\ UNCHANGED <<reviews, nextReviewId, local>>
            /\ Respond(p, "500")
    /\ UNCHANGED <<strictQuery, books, nextBookId, req, nreq>>

\* -------------------------------------------------- PUT /api/reviews/:id
\* the handler without its author check
StartUpdateReviewAnyUser(p, u, i, r, t) ==
    /\ Arrive(p, [NoReq EXCEPT !.kind = "updateReview", !.user = u,
                               !.review = i, !.rating = r, !.text = t],
              ReviewedBook(i))
    /\ IF ~((r = Absent \/ RouteRatingOk(r)) /\ (t = Absent \/ RouteTextOk(t)))
       THEN Respond(p, "400 validation")
       ELSE IF i \notin DOMAIN reviews THEN Respond(p, "404")
       ELSE Goto(p, "u_update") /\ resp' = resp
    /\ UNCHANGED <<strictQuery, db>>

\* the express-validator checks, const review = await Review.findById(id),
\* then the author check
StartUpdateReview(p, u, i, r, t) ==
    /\ Arrive(p, [NoReq EXCEPT !.kind = "updateReview", !.user = u,
                               !.review = i, !.rating = r, !.text = t],
              ReviewedBook(i))
    /\ IF ~((r = Absent \/ RouteRatingOk(r)) /\ (t = Absent \/ RouteTextOk(t)))
       THEN Respond(p, "400 validation")
       ELSE IF i \notin DOMAIN reviews THEN Respond(p, "404")
       ELSE IF reviews[i].reviewAuthor # u THEN Respond(p, "403")
       ELSE Goto(p, "u_update") /\ resp' = resp
    /\ UNCHANGED <<strictQuery, db>>

\* findByIdAndUpdate with { upsert: true }: a Review that is not found is
\* made from the id and the patch
UpdateReviewWriteUpsert(p) ==
    /\ pc[p] = "u_update"
    /\ LET i == req[p].review
           doc == NewReview(local[p].bookId, req[p].user, req[p].rating, req[p].text)
       IN /\ reviews' = IF i \in DOMAIN reviews
                         THEN [reviews EXCEPT ![i] = Patch(@, req[p].rating, req[p].text)]
                         ELSE reviews @@ (i :> doc)
          /\ local' = [local EXCEPT ![p].updatedReview = TRUE,
                                    ![p].mutations = @ + 1]
    /\ Goto(p, "ubr_find") /\ resp' = resp
    /\ UNCHANGED <<strictQuery, books, nextBookId, nextReviewId, req, nreq>>

\* await Review.findByIdAndUpdate(id, { $set: updateData },
\*                                { new: true, runValidators: true })
UpdateReviewWrite(p) ==
    /\ pc[p] = "u_update"
    /\ LET i == req[p].review
           r == req[p].rating
           t == req[p].text
       IN IF (r # Absent /\ ~SchemaRatingOk(r)) \/ (t # Absent /\ ~SchemaTextOk(t))
          THEN /\ UNCHANGED <<reviews, local>>
               /\ Respond(p, "500")
          ELSE /\ reviews' = IF i \in DOMAIN reviews
                             THEN [reviews EXCEPT ![i] = Patch(@, r, t)]
                             ELSE reviews
               /\ local' = [local EXCEPT
                                ![p].updatedReview = (i \in DOMAIN reviews),
                                ![p].mutations = IF i \in DOMAIN reviews THEN @ + 1 ELSE @]
               /\ Goto(p, "ubr_find") /\ resp' = resp
    /\ UNCHANGED <<strictQuery, books, nextBookId, nextReviewId, req, nreq>>

\* ----------------------------------------------- DELETE /api/reviews/:id
\* const review = await Review.findById(req.params.id), then the author check
StartDeleteReview(p, u, i) ==
    /\ Arrive(p, [NoReq EXCEPT !.kind = "deleteReview", !.user = u, !.review = i],
              ReviewedBook(i))
    /\ IF i \notin DOMAIN reviews THEN Respond(p, "404")
       ELSE IF reviews[i].reviewAuthor # u THEN Respond(p, "403")
       ELSE Goto(p, "d_delete") /\ resp' = resp
    /\ UNCHANGED <<strictQuery, db>>

\* await Review.findByIdAndDelete(req.params.id); the post hook runs when a
\* document was deleted
DeleteReviewDelete(p) ==
    /\ pc[p] = "d_delete"
    /\ LET i == req[p].review
       IN IF i \in DOMAIN reviews
          THEN /\ reviews' = Remove(reviews, {i})
               /\ local' = [local EXCEPT ![p].mutations = @ + 1]
               /\ Goto(p, "hook_findBook")
          ELSE /\ UNCHANGED <<reviews, local>>
               /\ Goto(p, "ubr_find")
    /\ UNCHANGED <<strictQuery, books, nextBookId, nextReviewId, req, resp, nreq>>

\* ------------------------------------------------- DELETE /api/books/:id
\* the handler without its Review.deleteMany
StartDeleteBookNoCascade(p, u, b) ==
    /\ Arrive(p, [NoReq EXCEPT !.kind = "deleteBook", !.user = u, !.book = b], 0)
    /\ IF b \notin DOMAIN books THEN Respond(p, "404")
       ELSE IF books[b].sharedBy # u THEN Respond(p, "403")
       ELSE Goto(p, "b_deleteBook") /\ resp' = resp
    /\ UNCHANGED <<strictQuery, db>>

\* const book = await Book.findById(req.params.id), then the creator check
StartDeleteBook(p, u, b) ==
    /\ Arrive(p, [NoReq EXCEPT !.kind = "deleteBook", !.user = u, !.book = b], 0)
    /\ IF b \notin DOMAIN books THEN Respond(p, "404")
       ELSE IF books[b].sharedBy # u THEN Respond(p, "403")
       ELSE Goto(p, "b_deleteReviews") /\ resp' = resp
    /\ UNCHANGED <<strictQuery, db>>

\* await Review.deleteMany({ bookId: req.params.id })
DeleteBookReviews(p) ==
    /\ pc[p] = "b_deleteReviews"
    /\ reviews' = Remove(reviews, ReviewsByBookId(req[p].book))
    /\ local' = [local EXCEPT ![p].cascaded = TRUE]
    /\ Goto(p, "b_deleteBook")
    /\ UNCHANGED <<strictQuery, books, nextBookId, nextReviewId, req, resp, nreq>>

\* await Book.findByIdAndDelete(req.params.id)
DeleteBookDelete(p) ==
    /\ pc[p] = "b_deleteBook"
    /\ books' = Remove(books, {req[p].book})
    /\ Respond(p, "200")
    /\ UNCHANGED <<strictQuery, reviews, nextBookId, nextReviewId, req, local, nreq>>

\* ------------------------------------------------------- GET /api/books
\* parseInt(req.query.page) || 1 and parseInt(req.query.limit) || 5
ParseOr(x, default) == IF x = Absent THEN default ELSE x

\* Math.floor in place of Math.ceil
FloorDiv(n, l) == n \div l

\* Math.ceil(total / limit), limit positive
CeilDiv(n, l) == (n + l - 1) \div l

\* A filter on `genre`, a path the Book schema does not declare (the genre
\* of a Book is its literaryGenre).  With strictQuery the path is stripped
\* and every Book matches; without it the filter matches no stored Book.
BooksByGenre(g) == IF strictQuery THEN DOMAIN books ELSE {}

\* { literaryGenre: genre }, the filter of Book.findByGenreWithStats
BooksByLiteraryGenre(g) == {b \in DOMAIN books : books[b].literaryGenre = g}

\* let query = {}; if (genre && genre !== 'All') query.genre = genre
QueryBooks(g) == IF g \in {NoGenre, "All"} THEN DOMAIN books ELSE BooksByGenre(g)

\* .sort({ createdAt: -1 }).skip(skip).limit(limit): Books are created in
\* the order of their ids, so the newest has the greatest id
PageOf(S, skip, limit) ==
    {b \in S : Cardinality({c \in S : c > b}) \in skip..(skip + limit - 1)}

\* the query parameters are read
StartListBooks(p, pg, lm, g) ==
    /\ Arrive(p, [NoReq EXCEPT !.kind = "listBooks", !.page = pg, !.limit = lm,
                               !.genre = g], 0)
    /\ Goto(p, "l_find") /\ resp' = resp
    /\ UNCHANGED <<strictQuery, db>>

\* const books = await Book.find(query).populate(...).sort(sort).skip(skip)
\* .limit(limit), and the transformation of what was found
ListBooksFind(p) ==
    /\ pc[p] = "l_find"
    /\ LET page == ParseOr(req[p].page, DefaultPage)
           limit == ParseOr(req[p].limit, DefaultLimit)
           skip == (page - 1) * limit
       IN local' = [local EXCEPT ![p].transformedBooks =
                                     PageOf(QueryBooks(req[p].genre), skip, limit)]
    /\ Goto(p, "l_count")
    /\ UNCHANGED <<strictQuery, db, req, resp, nreq>>

\* const total = await Book.countDocuments(query); totalPages; res.json(...)
ListBooksCount(p) ==
    /\ pc[p] = "l_count"
    /\ LET page == ParseOr(req[p].page, DefaultPage)
           limit == ParseOr(req[p].limit, DefaultLimit)
           total == Cardinality(QueryBooks(req[p].genre))
           totalPages == CeilDiv(total, limit)
       IN local' = [local EXCEPT ![p].pagination =
                       [currentPage |-> page, totalPages |-> totalPages,
                        totalBooks |-> total, hasNext |-> page < totalPages,
                        hasPrev |-> page > 1]]
    /\ Respond(p, "200")
    /\ UNCHANGED <<strictQuery, db, req, nreq>>

\* ------------------------------------------- components/Pagination.js
Max(a, b) == IF a >= b THEN a ELSE b

Min(a, b) == IF a <= b THEN a ELSE b

\* the window without the adjustment of startPage
WindowUnadjusted(currentPage, totalPages) ==
    LET startPage == Max(1, currentPage - (maxVisiblePages \div 2))
        endPage == Min(totalPages, startPage + maxVisiblePages - 1)
    IN [startPage |-> startPage, endPage |-> endPage]

\* let startPage = Math.max(1, currentPage - Math.floor(maxVisiblePages / 2));
\* let endPage = Math.min(totalPages, startPage + maxVisiblePages - 1);
\* if (endPage - startPage + 1 < maxVisiblePages)
\*   startPage = Math.max(1, endPage - maxVisiblePages + 1)
Window(currentPage, totalPages) ==
    LET startPage == Max(1, currentPage - (maxVisiblePages \div 2))
        endPage == Min(totalPages, startPage + maxVisiblePages - 1)
    IN [startPage |-> IF endPage - startPage + 1 < maxVisiblePages
                      THEN Max(1, endPage - maxVisiblePages + 1)
                      ELSE startPage,
        endPage |-> endPage]

\* the component is rendered with the currentPage and totalPages of the
\* pagination the page holds: for (let i = startPage; i <= endPage; i++)
\* pages.push(i); if (totalPages <= 1) return null; return <div>...</div>
Pagination(p) ==
    /\ pc[p] = "idle"
    /\ LET currentPage == local[p].pagination.currentPage
           totalPages == local[p].pagination.totalPages
           w == Window(currentPage, totalPages)
       IN /\ local' = [local EXCEPT ![p].startPage = w.startPage,
                                    ![p].endPage = w.endPage,
                                    ![p].pages = w.startPage..w.endPage]
          /\ resp' = [resp EXCEPT ![p] = IF totalPages <= 1 THEN "null" ELSE "div"]
    /\ Goto(p, "rendered")
    /\ UNCHANGED <<strictQuery, db, req, nreq>>

\* ------------------------------------------------------------ next state
Step(p) ==
    \/ CreateReviewFindExisting(p)
    \/ CreateReviewValidate(p)
    \/ CreateReviewInsert(p)
    \/ UpdateReviewWrite(p)
    \/ DeleteReviewDelete(p)
    \/ HookFindBook(p)
    \/ RecalculateRatingFind(p)
    \/ RecalculateRatingSave(p)
    \/ UpdateBookRatingFind(p)
    \/ UpdateBookRatingWrite(p)
    \/ Return(p)

BookStep(p) ==
    \/ DeleteBookReviews(p)
    \/ DeleteBookDelete(p)

\* a request of any kind arrives, its parameters drawn from the given sets
Start(p, U, R, T) ==
    \/ \E u \in U : CreateBook(p, u)
    \/ \E u \in U, b \in BookIds, r \in R, t \in T : StartCreateReview(p, u, b, r, t)
    \/ \E u \in U, i \in ReviewIds, r \in R \cup {Absent}, t \in T \cup {Absent} :
          StartUpdateReview(p, u, i, r, t)
    \/ \E u \in U, i \in ReviewIds : StartDeleteReview(p, u, i)

\* requests of every kind, overlapping freely
Next ==
    \E p \in Procs :
        \/ nreq < MaxRequests /\ Start(p, RaceUsers, RaceRatings, RaceTexts)
        \/ nreq < MaxRequests /\ \E u \in RaceUsers, b \in BookIds : StartDeleteBook(p, u, b)
        \/ Step(p)
        \/ BookStep(p)

Spec == Init /\ [][Next]_vars

\* requests of every kind, each run to completion before the next arrives
SeqNext ==
    \E p \in SeqProcs :
        \/ AllIdle /\ nreq < MaxSeqRequests /\ Start(p, Users, RatingInputs, TextInputs)
        \/ AllIdle /\ nreq < MaxSeqRequests
                   /\ \E u \in Users, b \in BookIds : StartDeleteBook(p, u, b)
        \/ Step(p)
        \/ BookStep(p)

SeqSpec == Init /\ [][SeqNext]_vars

\* review writes (and the creation of Books), one at a time
ReviewSeqNext ==
    \E p \in SeqProcs :
        \/ AllIdle /\ nreq < MaxSeqRequests /\ Start(p, Users, RatingInputs, TextInputs)
        \/ Step(p)

ReviewSeqSpec == Init /\ [][ReviewSeqNext]_vars

\* review writes (and the creation of Books), overlapping freely
ReviewNext ==
    \E p \in Procs :
        \/ nreq < MaxRequests /\ Start(p, RaceUsers, RaceRatings, RaceTexts)
        \/ Step(p)

ReviewSpec == Init /\ [][ReviewNext]_vars

\* Book requests with every kind of body, and createReview requests that
\* give the Books aggregates, each run to completion before the next arrives
BookNext ==
    \E p \in SeqProcs :
        \/ AllIdle /\ nreq < MaxSeqRequests
           /\ \E u \in RaceUsers, g \in CreateGenres, a \in AggregateInputs \cup {Absent} :
                 CreateBookWith(p, u, g, a)
        \/ AllIdle /\ nreq < MaxSeqRequests
           /\ \E u \in RaceUsers, b \in BookIds, g \in UpdateGenres \cup {NoGenre},
                 a \in AggregateInputs \cup {Absent} : StartUpdateBook(p, u, b, g, a)
        \/ AllIdle /\ nreq < MaxSeqRequests
           /\ \E u \in RaceUsers, b \in BookIds : StartDeleteBook(p, u, b)
        \/ AllIdle /\ nreq < MaxSeqRequests
           /\ \E u \in RaceUsers, b \in BookIds, r \in RaceRatings, t \in RaceTexts :
                 StartCreateReview(p, u, b, r, t)
        \/ UpdateBookWrite(p)
        \/ BookStep(p)
        \/ CreateReviewFindExisting(p)
        \/ CreateReviewValidate(p)
        \/ CreateReviewInsert(p)
        \/ HookFindBook(p)
        \/ RecalculateRatingFind(p)
        \/ RecalculateRatingSave(p)
        \/ UpdateBookRatingFind(p)
        \/ UpdateBookRatingWrite(p)
        \/ Return(p)

BookSpec == Init /\ [][BookNext]_vars

\* Reviews created and then patched, one request at a time
PatchNext ==
    \E p \in SeqProcs :
        \/ AllIdle /\ nreq < MaxSeqRequests /\ \E u \in RaceUsers : CreateBook(p, u)
        \/ AllIdle /\ nreq < MaxSeqRequests
           /\ \E u \in RaceUsers, b \in BookIds, r \in CreatedRatings, t \in CreatedTexts :
                 StartCreateReview(p, u, b, r, t)
        \/ AllIdle /\ nreq < MaxSeqRequests
           /\ \E u \in RaceUsers, i \in ReviewIds, r \in PatchRatings \cup {Absent},
                 t \in PatchTexts \cup {Absent} : StartUpdateReview(p, u, i, r, t)
        \/ CreateReviewFindExisting(p)
        \/ CreateReviewValidate(p)
        \/ CreateReviewInsert(p)
        \/ UpdateReviewWrite(p)
        \/ HookFindBook(p)
        \/ RecalculateRatingFind(p)
        \/ RecalculateRatingSave(p)
        \/ UpdateBookRatingFind(p)
        \/ UpdateBookRatingWrite(p)
        \/ Return(p)

PatchSpec == Init /\ [][PatchNext]_vars

\* Books created and deleted while they are listed: the listings come one
\* after another, the writes overlap them and each other freely
ListNext ==
    \E p \in Procs :
        \/ nreq < MaxRequests
           /\ \E u \in ListUsers, g \in ListedGenres : CreateBookWith(p, u, g, Absent)
        \/ nreq < MaxRequests
           /\ \E u \in ListUsers, b \in BookIds : StartDeleteBook(p, u, b)
        \/ nreq < MaxRequests /\ p \in SeqProcs
           /\ \E pg \in PageInputs, lm \in LimitInputs, g \in GenreFilters :
                 StartListBooks(p, pg, lm, g)
        \/ BookStep(p)
        \/ ListBooksFind(p)
        \/ ListBooksCount(p)
        \/ Return(p)

ListSpec == Init /\ [][ListNext]_vars

\* review writes of one user, overlapping freely; every handler that has
\* started goes on: the store answers each operation it is asked for
FairReviewNext ==
    \E p \in Procs :
        \/ nreq < MaxRequests /\ Start(p, ListUsers, CreatedRatings, CreatedTexts)
        \/ Step(p)

FairReviewSpec ==
    Init /\ [][FairReviewNext]_vars /\ \A p \in Procs : WF_vars(Step(p))

\* the Pagination component given every currentPage and totalPages up to
\* MaxPages, a currentPage beyond totalPages included (the server answers
\* one when a page past the last is asked for)
PaginationInit ==
    /\ strictQuery \in BOOLEAN
    /\ books = <<>>
    /\ reviews = <<>>
    /\ nextBookId = 1
    /\ nextReviewId = 1
    /\ pc = [p \in Procs |-> "idle"]
    /\ req = [p \in Procs |-> NoReq]
    /\ \E currentPage \in 1..MaxPages, totalPages \in 0..MaxPages :
          local = [p \in Procs |->
                     [NoLocal EXCEPT !.pagination.currentPage = currentPage,
                                     !.pagination.totalPages = totalPages]]
    /\ resp = [p \in Procs |-> "none"]
    /\ nreq = 0

PaginationNext == \E p \in SeqProcs : Pagination(p)

PaginationSpec == PaginationInit /\ [][PaginationNext]_vars

\* ================================================================ claims
ReviewWrites == {"createReview", "updateReview", "deleteReview"}

Succeeded(p) == pc[p] = "done" /\ resp[p] \in {"200", "201"}

\* C1: with review writes run one at a time, whenever no request is in
\* progress every existing Book's reviewCount is the number of stored
\* Reviews that reference it.
C1_ReviewCountIsCount ==
    Quiet => \A b \in DOMAIN books : CountRight(b)

\* a deleteReview has completed and left one Review counted on its Book
C1_Witness ==
    \E p \in Procs :
        /\ Succeeded(p) /\ req[p].kind = "deleteReview"
        /\ local[p].bookId \in DOMAIN books
        /\ books[local[p].bookId].reviewCount = 1
        /\ Cardinality(Referencing(local[p].bookId)) = 1

\* C2: with review writes run one at a time, whenever no request is in
\* progress every existing Book's communityRating is the mean of the ratings
\* of its Reviews rounded to one decimal, and 0 when it has none; the
\* recomputation gives 4.0 for [5,4,3], 4.5 for [5,4], 3.5 for [5,2], 0 for [].
C2_RatingIsRoundedMean ==
    /\ Quiet => \A b \in DOMAIN books : MeanRight(b)
    /\ RoundedMean(5 + 4 + 3, 3) = 40
    /\ RoundedMean(5 + 4, 2) = 45
    /\ RoundedMean(5 + 2, 2) = 35
    /\ RoundedMean(0, 0) = 0

\* three Reviews whose mean 14/3 is not a tenth: 4.7 is stored
C2_Witness ==
    /\ Quiet
    /\ \E b \in DOMAIN books :
         /\ Cardinality(Referencing(b)) = 3
         /\ RatingTotal(b, MaxReviews) = 14
         /\ books[b].communityRating = 47

\* C3: in every reachable state, whatever the interleaving, at most one
\* Review is stored for each (book, author) pair.
C3_OneReviewPerPair ==
    \A i, j \in DOMAIN reviews :
        (/\ reviews[i].reviewedBook = reviews[j].reviewedBook
         /\ reviews[i].reviewAuthor = reviews[j].reviewAuthor) => i = j

\* a createReview that passed the lookup was turned down by the unique index
C3_Witness ==
    \E p \in Procs :
        /\ pc[p] = "done" /\ req[p].kind = "createReview" /\ resp[p] = "500"
        /\ req[p].book \in DOMAIN books
        /\ \E i \in DOMAIN reviews :
             /\ reviews[i].reviewedBook = req[p].book
             /\ reviews[i].reviewAuthor = req[p].user

PairTaken(b, u) ==
    \E i \in ReviewIds :
        /\ i \in DOMAIN reviews
        /\ reviews[i].reviewedBook = b
        /\ reviews[i].reviewAuthor = u

\* C4 as stated: every createReview by U for B handled while a Review by U
\* for B is stored ends with the duplicate-review response, and none of its
\* steps changes the Review store or any Book.
C4_AnyBodyDuplicateRejected ==
    [][\A p \in Procs :
        (/\ pc'[p] # pc[p]
         /\ pc[p] \in {"idle", "c_findExisting"}
         /\ req'[p].kind = "createReview"
         /\ PairTaken(req'[p].book, req'[p].user))
        => /\ reviews' = reviews
           /\ books' = books
           /\ pc'[p] \in {"c_findExisting", "done"}
           /\ pc'[p] = "done" => resp'[p] = "400 duplicate"]_vars

\* C4: a createReview by U for an existing Book B whose body passes the
\* request validation, handled while a Review by U for B is stored, ends with
\* the duplicate-review response, and none of its steps changes the Review
\* store or any Book.
C4_DuplicateRejected ==
    [][\A p \in Procs :
        (/\ pc'[p] # pc[p]
         /\ pc[p] \in {"idle", "c_findExisting"}
         /\ req'[p].kind = "createReview"
         /\ RouteRatingOk(req'[p].rating) /\ RouteTextOk(req'[p].text)
         /\ req'[p].book \in DOMAIN books
         /\ PairTaken(req'[p].book, req'[p].user))
        => /\ reviews' = reviews
           /\ books' = books
           /\ pc'[p] \in {"c_findExisting", "done"}
           /\ pc'[p] = "done" => resp'[p] = "400 duplicate"]_vars

\* a second createReview for a taken pair has been answered as a duplicate
C4_Witness ==
    \E p \in Procs :
        /\ pc[p] = "done" /\ req[p].kind = "createReview"
        /\ resp[p] = "400 duplicate"
        /\ req[p].book \in DOMAIN books
        /\ PairTaken(req[p].book, req[p].user)

\* C5: once a deleteBook(B) by B's creator has completed successfully, no
\* stored Review references B.
C5_NoReviewOfDeletedBook ==
    \A p \in Procs :
        (Succeeded(p) /\ req[p].kind = "deleteBook") => Referencing(req[p].book) = {}

\* C6 as stated: every updateReview or deleteReview that names a stored
\* Review whose author is not the requester is answered 403, and the Review
\* store and every Book are left as they were.
C6_AnyBodyNonAuthorForbidden ==
    [][\A p \in Procs :
        (/\ pc[p] = "idle" /\ pc'[p] # "idle"
         /\ req'[p].kind \in {"updateReview", "deleteReview"}
         /\ req'[p].review \in DOMAIN reviews
         /\ reviews[req'[p].review].reviewAuthor # req'[p].user)
        => /\ pc'[p] = "done" /\ resp'[p] = "403"
           /\ reviews' = reviews
           /\ books' = books]_vars

\* C6: an updateReview whose body passes the request validation, or a
\* deleteReview, that names a stored Review whose author is not the requester
\* is answered 403, and the Review store and every Book are left as they were.
C6_NonAuthorForbidden ==
    [][\A p \in Procs :
        (/\ pc[p] = "idle" /\ pc'[p] # "idle"
         /\ req'[p].kind \in {"updateReview", "deleteReview"}
         /\ req'[p].rating = Absent \/ RouteRatingOk(req'[p].rating)
         /\ req'[p].text = Absent \/ RouteTextOk(req'[p].text)
         /\ req'[p].review \in DOMAIN reviews
         /\ reviews[req'[p].review].reviewAuthor # req'[p].user)
        => /\ pc'[p] = "done" /\ resp'[p] = "403"
           /\ reviews' = reviews
           /\ books' = books]_vars

\* a non-author's update that would have changed the rating has been refused
C6_Witness ==
    \E p \in Procs :
        /\ pc[p] = "done" /\ resp[p] = "403" /\ req[p].kind = "updateReview"
        /\ req[p].review \in DOMAIN reviews
        /\ reviews[req[p].review].reviewAuthor # req[p].user
        /\ req[p].rating # Absent
        /\ req[p].rating # reviews[req[p].review].starRating

\* C7: with review writes overlapping, whenever no request is in progress
\* every existing Book's reviewCount and communityRating are the count and
\* the rounded mean of the Reviews that reference it.
C7_QuietAggregateRight ==
    Quiet => \A b \in DOMAIN books : ~Stale(b)

\* C8: a review write that completes successfully with no other request in
\* progress between its arrival and its response leaves its Book's
\* reviewCount and communityRating equal to the count and the rounded mean
\* of the stored Reviews, also when they were stale at its arrival.
C8_WriteAloneRepairs ==
    [][\A p \in Procs :
        (/\ pc[p] = "ubr_write" /\ pc'[p] = "done"
         /\ local[p].alone
         /\ local[p].bookId \in DOMAIN books)
        => /\ resp'[p] \in {"200", "201"}
           /\ ~Stale(local[p].bookId)']_vars

\* the aggregate was stale at the arrival of a write that then ran alone
C8_Witness ==
    \E p \in Procs :
        /\ Succeeded(p) /\ req[p].kind \in ReviewWrites
        /\ local[p].alone /\ local[p].stale
        /\ ~Stale(local[p].bookId)

Inserted(p) ==
    \/ pc[p] \in {"hook_findBook", "recalc_find", "recalc_save", "ubr_find", "ubr_write"}
    \/ pc[p] = "done" /\ resp[p] = "201"

\* C9: of two concurrent createReview requests for the same (book, user) that
\* both passed the duplicate lookup before either inserted, at most one
\* stores a Review; when both have responded, one was answered 201 and the
\* other with the error response 500, and one Review is stored for the pair.
C9_RaceHasOneWinner ==
    \A p, q \in Procs :
        (/\ p # q
         /\ req[p].kind = "createReview" /\ req[q].kind = "createReview"
         /\ req[p].book = req[q].book /\ req[p].user = req[q].user
         /\ local[p].raced /\ local[q].raced)
        => /\ ~(Inserted(p) /\ Inserted(q))
           /\ Cardinality({i \in DOMAIN reviews :
                              /\ reviews[i].reviewedBook = req[p].book
                              /\ reviews[i].reviewAuthor = req[p].user}) <= 1
           /\ (pc[p] = "done" /\ pc[q] = "done") =>
                 /\ {resp[p], resp[q]} = {"201", "500"}
                 /\ PairTaken(req[p].book, req[p].user)

C9_Witness ==
    \E p, q \in Procs :
        /\ p # q
        /\ req[p].kind = "createReview" /\ req[q].kind = "createReview"
        /\ req[p].book = req[q].book /\ req[p].user = req[q].user
        /\ local[p].raced /\ local[q].raced
        /\ pc[p] = "done" /\ resp[p] = "201"
        /\ pc[q] = "done" /\ resp[q] = "500"

\* C10: in every reachable state, whatever the interleaving of createReview
\* and deleteBook, every stored Review references a Book that exists.
C10_ReviewedBookExists ==
    \A i \in DOMAIN reviews : reviews[i].reviewedBook \in DOMAIN books

\* C11: when updateBookRating's write finds its Book gone, no Book record is
\* created or changed and the review write that triggered it (a create, a
\* delete, or an update that stored its patch) is answered with its success
\* response.
C11_GoneBookIsNoOp ==
    [][\A p \in Procs :
        (/\ pc[p] = "ubr_write" /\ pc'[p] # "ubr_write"
         /\ local[p].bookId \notin DOMAIN books
         /\ req[p].kind = "updateReview" => local[p].updatedReview)
        => /\ books' = books
           /\ reviews' = reviews
           /\ pc'[p] = "done"
           /\ resp'[p] = IF req[p].kind = "createReview" THEN "201" ELSE "200"]_vars

\* a createReview whose Book was deleted before its Review was stored has
\* been answered 201
C11_Witness ==
    \E p \in Procs :
        /\ Succeeded(p) /\ req[p].kind = "createReview"
        /\ local[p].hookBook = NoDoc
        /\ local[p].bookId \notin DOMAIN books
        /\ PairTaken(req[p].book, req[p].user)

C13_AggregateNotFromClient ==
    [][\A p \in Procs :
        /\ (pc[p] = "idle" /\ req'[p].kind = "createBook")
           => /\ \A b \in DOMAIN books' \ DOMAIN books :
                    books'[b].communityRating = 0 /\ books'[b].reviewCount = 0
              /\ \A b \in DOMAIN books : b \in DOMAIN books' /\ books'[b] = books[b]
        /\ (pc'[p] # pc[p] /\ req'[p].kind = "updateBook")
           => /\ DOMAIN books' = DOMAIN books
              /\ \A b \in DOMAIN books :
                    /\ books'[b].communityRating = books[b].communityRating
                    /\ books'[b].reviewCount = books[b].reviewCount]_vars

\* an updateBook whose body carried a communityRating and a genre has changed
\* the genre of a Book that has a Review and left its rating as it was
C13_Witness ==
    \E p \in Procs :
        /\ Succeeded(p) /\ req[p].kind = "updateBook"
        /\ req[p].aggregate # Absent
        /\ req[p].book \in DOMAIN books
        /\ books[req[p].book].literaryGenre = req[p].genre
        /\ books[req[p].book].reviewCount = 1
        /\ books[req[p].book].communityRating # req[p].aggregate
        /\ books[req[p].book].communityRating # 0

\* C14: every step that changes the communityRating or the reviewCount of a
\* Book is the write of updateBookRating for that Book.
C14_OnlyUpdaterWrites ==
    [][\A b \in DOMAIN books :
        (/\ b \in DOMAIN books'
         /\ \/ books'[b].communityRating # books[b].communityRating
            \/ books'[b].reviewCount # books[b].reviewCount)
        => \E p \in Procs :
              /\ pc[p] = "ubr_write" /\ pc'[p] = "done"
              /\ local[p].bookId = b]_vars

\* C15: a Review leaves the store only in the delete step of a deleteReview
\* by its author that names it, or in the deleteMany step of a deleteBook for
\* the Book it references; a deleteBook(B) leaves the Reviews of other Books
\* stored and unchanged.
C15_ReviewRemovedByOwnerOrCascade ==
    [][\A i \in DOMAIN reviews :
        /\ i \notin DOMAIN reviews'
           => \E p \in Procs :
                 \/ /\ pc[p] = "d_delete" /\ pc'[p] # "d_delete"
                    /\ req[p].review = i
                    /\ req[p].user = reviews[i].reviewAuthor
                 \/ /\ pc[p] = "b_deleteReviews" /\ pc'[p] # "b_deleteReviews"
                    /\ req[p].book = reviews[i].reviewedBook
        /\ \A p \in Procs :
              (/\ req[p].kind = "deleteBook" /\ pc'[p] # pc[p]
               /\ reviews[i].reviewedBook # req[p].book)
              => i \in DOMAIN reviews' /\ reviews'[i] = reviews[i]]_vars

\* a request that names a Book (createReview) or a Review (updateReview,
\* deleteReview) the store does not hold arrives at slot p
NamesMissing(p) ==
    /\ pc[p] = "idle" /\ pc'[p] # "idle"
    /\ \/ req'[p].kind = "createReview" /\ req'[p].book \notin DOMAIN books
       \/ /\ req'[p].kind \in {"updateReview", "deleteReview"}
          /\ req'[p].review \notin DOMAIN reviews

\* the body of the request arriving at slot p passes the route's validators
BodyValid(p) ==
    IF req'[p].kind = "createReview"
    THEN RouteRatingOk(req'[p].rating) /\ RouteTextOk(req'[p].text)
    ELSE /\ req'[p].rating = Absent \/ RouteRatingOk(req'[p].rating)
         /\ req'[p].text = Absent \/ RouteTextOk(req'[p].text)

\* C16 as stated: every createReview naming a Book that does not exist, and
\* every updateReview or deleteReview naming a Review that does not exist,
\* is answered 404 and leaves the Review store and every Book as they were.
C16_AnyBodyMissingIsNotFound ==
    [][\A p \in Procs :
        NamesMissing(p)
        => /\ pc'[p] = "done" /\ resp'[p] = "404"
           /\ reviews' = reviews
           /\ books' = books]_vars

\* C16: a createReview with a valid body naming a Book that does not exist,
\* an updateReview with a valid body naming a Review that does not exist, and
\* a deleteReview naming a Review that does not exist are each answered 404
\* and leave the Review store and every Book as they were.
C16_MissingIsNotFound ==
    [][\A p \in Procs :
        (NamesMissing(p) /\ BodyValid(p))
        => /\ pc'[p] = "done" /\ resp'[p] = "404"
           /\ reviews' = reviews
           /\ books' = books]_vars

\* a createReview for a Book that is not stored has been answered 404 while
\* a Book with a Review is stored
C16_Witness ==
    \E p \in Procs :
        /\ pc[p] = "done" /\ resp[p] = "404" /\ req[p].kind = "createReview"
        /\ req[p].book \notin DOMAIN books
        /\ \E b \in DOMAIN books : books[b].reviewCount > 0

\* the createReview or updateReview at slot p carries a rating outside 1..5
\* or a text outside the length bounds of the route or of the schema, and
\* nothing else stands in its way: the Book exists and the pair is free
\* (create), the Review exists and the requester is its author (update)
InvalidBody(p) ==
    LET r == req[p].rating
        t == req[p].text
        i == req[p].review
    IN \/ /\ req[p].kind = "createReview"
          /\ req[p].book \in DOMAIN books
          /\ ~PairTaken(req[p].book, req[p].user)
          /\ ~(RouteRatingOk(r) /\ RouteTextOk(t) /\ SchemaTextOk(t))
       \/ /\ req[p].kind = "updateReview"
          /\ i \in DOMAIN reviews /\ reviews[i].reviewAuthor = req[p].user
          /\ \/ r # Absent /\ ~RouteRatingOk(r)
             \/ t # Absent /\ ~(RouteTextOk(t) /\ SchemaTextOk(t))

\* C17: a createReview or updateReview whose rating is not in 1..5 or whose
\* text is outside the length bounds is answered with the validation error
\* and none of its steps changes a Review or a Book; every stored Review has
\* a rating in 1..5.
C17_InvalidBodyRejected ==
    [][/\ \A p \in Procs :
            (pc'[p] # pc[p] /\ pc'[p] # "idle" /\ InvalidBody(p)')
            => /\ reviews' = reviews
               /\ books' = books
               /\ pc'[p] = "done" => resp'[p] = "400 validation"
       /\ \A i \in DOMAIN reviews' : reviews'[i].starRating \in MinRating..MaxRating]_vars

\* C18: the write of an updateReview changes only the Review it names and
\* only the fields its patch has (a patch without rating leaves starRating,
\* a patch without text leaves reviewContent), sets the fields it has, and no
\* step ever changes a Review's reviewedBook or reviewAuthor.
C18_PatchOnlyPresentFields ==
    [][/\ \A i \in DOMAIN reviews :
            i \in DOMAIN reviews'
            => /\ reviews'[i].reviewedBook = reviews[i].reviewedBook
               /\ reviews'[i].reviewAuthor = reviews[i].reviewAuthor
       /\ \A p \in Procs :
            (pc[p] = "u_update" /\ pc'[p] = "ubr_find")
            => /\ DOMAIN reviews' = DOMAIN reviews
               /\ \A i \in DOMAIN reviews :
                     /\ i # req[p].review => reviews'[i] = reviews[i]
                     /\ reviews'[i].starRating =
                           IF i = req[p].review /\ req[p].rating # Absent
                           THEN req[p].rating ELSE reviews[i].starRating
                     /\ reviews'[i].reviewContent =
                           IF i = req[p].review /\ req[p].text # Absent
                           THEN req[p].text ELSE reviews[i].reviewContent]_vars

\* a patch with only a rating has been stored and the text is the one the
\* Review was created with
C18_Witness ==
    \E p \in Procs :
        /\ Succeeded(p) /\ req[p].kind = "updateReview"
        /\ req[p].rating \in PatchRatings /\ req[p].text = Absent
        /\ req[p].review \in DOMAIN reviews
        /\ reviews[req[p].review].starRating = req[p].rating
        /\ reviews[req[p].review].reviewContent \in CreatedTexts

\* the positions of a handler inside the hooks and updateBookRating
Recomputing == {"hook_findBook", "recalc_find", "recalc_save", "ubr_find", "ubr_write"}

\* the step of slot p is its handler's own store operation on the Review:
\* the insert, the patch, or the delete
StoreOperation(p) ==
    LET i == req[p].review
    IN \/ /\ pc[p] = "c_insert"
          /\ local[p].bookId = req[p].book
          /\ \E j \in DOMAIN reviews' \ DOMAIN reviews :
                reviews'[j] = NewReview(req[p].book, req[p].user, req[p].rating, req[p].text)
       \/ /\ pc[p] = "u_update"
          /\ i \in DOMAIN reviews
             => /\ reviews'[i] = Patch(reviews[i], req[p].rating, req[p].text)
                /\ local[p].bookId = reviews[i].reviewedBook
       \/ /\ pc[p] = "d_delete"
          /\ i \notin DOMAIN reviews'
          /\ i \in DOMAIN reviews => local[p].bookId = reviews[i].reviewedBook

\* C19: in a review write the recomputation starts only in the step that
\* performs the handler's store operation on the Review, for the Book that
\* Review references (for a delete, as read before the deletion); the read
\* of updateBookRating precedes its write; and a success response is sent
\* only in the step in which updateBookRating writes the Book what it
\* computed.
C19_MutateRecomputeRespond ==
    [][\A p \in Procs :
        /\ (pc'[p] \in Recomputing /\ pc[p] \notin Recomputing) => StoreOperation(p)
        /\ (pc'[p] = "ubr_write" /\ pc[p] # "ubr_write") => pc[p] = "ubr_find"
        /\ (/\ pc'[p] = "done" /\ pc[p] # "done"
            /\ req'[p].kind \in ReviewWrites
            /\ resp'[p] \in {"200", "201"})
           => /\ pc[p] = "ubr_write"
              /\ local[p].bookId \in DOMAIN books
                 => /\ books'[local[p].bookId].reviewCount = local[p].totalReviews
                    /\ books'[local[p].bookId].communityRating = local[p].averageRating]_vars

\* a deleteReview has been answered 200 with its Review gone and the count of
\* the Reviews that remain written to the Book it referenced
C19_Witness ==
    \E p \in Procs :
        /\ Succeeded(p) /\ req[p].kind = "deleteReview"
        /\ req[p].review \notin DOMAIN reviews
        /\ local[p].bookId \in DOMAIN books
        /\ local[p].totalReviews = 1
        /\ books[local[p].bookId].reviewCount = 1
        /\ Cardinality(Referencing(local[p].bookId)) = 1

\* an updateBook or deleteBook arrives at slot p from a user who is not the
\* creator of the stored Book it names
NonCreatorArrives(p) ==
    /\ pc[p] = "idle" /\ pc'[p] # "idle"
    /\ req'[p].kind \in {"updateBook", "deleteBook"}
    /\ req'[p].book \in DOMAIN books
    /\ books[req'[p].book].sharedBy # req'[p].user

\* C20 as stated: every updateBook or deleteBook by a user who is not the
\* Book's creator is answered 403, and every Book and the Review store are
\* left as they were.
C20_AnyBodyNonCreatorForbidden ==
    [][\A p \in Procs :
        NonCreatorArrives(p)
        => /\ pc'[p] = "done" /\ resp'[p] = "403"
           /\ books' = books
           /\ reviews' = reviews]_vars

\* C20: a deleteBook, or an updateBook whose body passes the request
\* validation, by a user who is not the Book's creator is answered 403, and
\* every Book and the Review store are left as they were.
C20_NonCreatorForbidden ==
    [][\A p \in Procs :
        (/\ NonCreatorArrives(p)
         /\ req'[p].genre = NoGenre \/ req'[p].genre \in RouteGenres)
        => /\ pc'[p] = "done" /\ resp'[p] = "403"
           /\ books' = books
           /\ reviews' = reviews]_vars

\* a non-creator's updateBook that would have changed the genre of a Book
\* with a Review has been refused
C20_Witness ==
    \E p \in Procs :
        /\ pc[p] = "done" /\ resp[p] = "403" /\ req[p].kind = "updateBook"
        /\ req[p].book \in DOMAIN books
        /\ books[req[p].book].sharedBy # req[p].user
        /\ req[p].genre \in RouteGenres
        /\ books[req[p].book].literaryGenre # req[p].genre
        /\ Referencing(req[p].book) # {}
\* the step in which a GET /api/books handler counts and responds
ListResponds(p) == pc[p] = "l_count" /\ pc'[p] = "done"

\* C21: a GET /api/books with page p and limit l (each a positive number, or
\* absent: then p = 1, l = 5) answers currentPage = p, totalBooks = the
\* number of Books its query matches when it counts them (all stored Books
\* when no genre is asked for), totalPages = ceil(totalBooks / l), hasNext =
\* (p < totalPages), hasPrev = (p > 1), and at most l books.
C21_PaginationFields ==
    [][\A p \in Procs :
        ListResponds(p) =>
          LET pg == IF req[p].page = Absent THEN 1 ELSE req[p].page
              l == IF req[p].limit = Absent THEN 5 ELSE req[p].limit
              out == local'[p].pagination
          IN /\ resp'[p] = "200"
             /\ out.currentPage = pg
             /\ req[p].genre \in {NoGenre, "All"} =>
                    out.totalBooks = Cardinality(DOMAIN books)
             /\ out.totalPages * l >= out.totalBooks
             /\ (out.totalPages - 1) * l < out.totalBooks \/ out.totalPages = 0
             /\ out.totalPages >= 0
             /\ out.hasNext = (pg < out.totalPages)
             /\ out.hasPrev = (pg > 1)
             /\ Cardinality(local'[p].transformedBooks) <= l]_vars

\* page 2 of two Books listed one to a page has been answered
C21_Witness ==
    \E p \in Procs :
        /\ pc[p] = "done" /\ req[p].kind = "listBooks"
        /\ req[p].page = 2 /\ req[p].limit = 1
        /\ local[p].pagination = [currentPage |-> 2, totalPages |-> 2, totalBooks |-> 2,
                                  hasNext |-> FALSE, hasPrev |-> TRUE]
        /\ Cardinality(local[p].transformedBooks) = 1

\* C22: a GET /api/books with a genre parameter G other than 'All' returns
\* only Books whose genre is G, and its totalBooks is the number of Books
\* whose genre is G.
C22_GenreFilter ==
    [][\A p \in Procs :
        LET G == req[p].genre
        IN /\ (pc[p] = "l_find" /\ pc'[p] = "l_count" /\ G \notin {NoGenre, "All"})
              => \A b \in local'[p].transformedBooks :
                     b \in DOMAIN books /\ books[b].literaryGenre = G
           /\ (ListResponds(p) /\ G \notin {NoGenre, "All"})
              => local'[p].pagination.totalBooks =
                     Cardinality(BooksByLiteraryGenre(G))]_vars

\* C23: a createBook request whose genre is a value of the Book schema's
\* genre enumeration ('Technology' among them) is accepted.
C23_SchemaGenreAccepted ==
    \A p \in Procs :
        (/\ pc[p] = "done" /\ req[p].kind = "createBook"
         /\ req[p].genre \in SchemaGenres)
        => resp[p] = "201"

\* the step that ends the run of a Review hook for a Book that is stored
HookEnds(p) ==
    /\ pc[p] \in {"hook_findBook", "recalc_find", "recalc_save"}
    /\ pc'[p] = "ubr_find"
    /\ local[p].bookId \in DOMAIN books'

\* C24: when the recomputation run by a Review post-save or post-delete hook
\* (Book.recalculateRating) ends, the Book has what updateBookRating would
\* write: reviewCount = the number of Reviews referencing the Book and
\* communityRating = their mean rounded to one decimal, 0 and 0 with none.
C24_HookEqualsUpdater ==
    [][\A p \in Procs :
        HookEnds(p) =>
          LET b == local[p].bookId
              n == Cardinality(Referencing(b))
          IN /\ books'[b].reviewCount = n
             /\ books'[b].communityRating = RoundedMean(RatingTotal(b, MaxReviews), n)]_vars

C26_OneResponseNoRetry ==
    /\ \A p \in Procs :
          (req[p].kind \in ReviewWrites /\ pc[p] # "done") ~> (pc[p] = "done")
    /\ [][\A p \in Procs :
            req'[p].kind \in ReviewWrites
            => /\ resp'[p] # resp[p] => (resp[p] = "none" /\ pc[p] # "done" /\ pc'[p] = "done")
               /\ (pc'[p] = "done" /\ pc[p] # "done") => resp'[p] # "none"
               /\ pc[p] = "done" => pc'[p] \in {"done", "idle"}
               /\ local'[p].mutations <= 1
               /\ local'[p].updaterRuns <= 1]_vars

\* a deleteReview has responded after one store mutation and one run of the
\* updater, and a createReview turned down by the unique index after none
C26_Witness ==
    /\ \E p \in Procs :
         /\ Succeeded(p) /\ req[p].kind = "deleteReview"
         /\ local[p].mutations = 1 /\ local[p].updaterRuns = 1
    /\ \E p \in Procs :
         /\ pc[p] = "done" /\ req[p].kind = "createReview" /\ resp[p] = "500"
         /\ local[p].mutations = 0 /\ local[p].updaterRuns = 0

\* C27: in every reachable state, with requests overlapping freely, each
\* Book's communityRating is 0 exactly when its reviewCount is 0 and is
\* otherwise between 1.0 and 5.0; and a step that changes either field of a
\* Book is the write of one recomputation for that Book, which gives both
\* fields the values that recomputation computed.
C27_AggregateFieldsAgree ==
    /\ [](\A b \in DOMAIN books :
            /\ books[b].communityRating = 0 <=> books[b].reviewCount = 0
            /\ books[b].reviewCount # 0
               => books[b].communityRating \in (10 * MinRating)..(10 * MaxRating))
    /\ [][\A b \in DOMAIN books \cap DOMAIN books' :
            (\/ books'[b].communityRating # books[b].communityRating
             \/ books'[b].reviewCount # books[b].reviewCount)
            => \E p \in Procs :
                 /\ local[p].bookId = b /\ pc'[p] # pc[p]
                 /\ \/ /\ pc[p] = "ubr_write"
                       /\ books'[b].communityRating = local[p].averageRating
                       /\ books'[b].reviewCount = local[p].totalReviews
                    \/ /\ pc[p] = "recalc_save"
                       /\ books'[b].communityRating = 0
                       /\ books'[b].reviewCount = 0]_vars

\* a Book stands at 4.5 with two Reviews while a request is in progress
C27_Witness ==
    /\ \E b \in DOMAIN books :
         books[b].communityRating = 45 /\ books[b].reviewCount = 2
    /\ \E p \in Procs : pc[p] \notin {"idle", "done"}

\* the updateReview of slot p passed its author check and then found its
\* Review gone when it wrote: it has run updateBookRating and answered
LostToDelete(p) ==
    /\ req[p].kind = "updateReview" /\ pc[p] = "done"
    /\ local[p].mutations = 0 /\ local[p].updaterRuns = 1

\* C28: when a deleteReview removes a Review between the author check and
\* the write of an updateReview of the same Review, the update's write
\* changes no Review; a Review that has left the store never appears in it
\* again; and when both requests have responded and nothing else is in
\* progress, the Review is not stored and its Book's reviewCount is the
\* number of Reviews that reference the Book.
C28_DeletedReviewStaysDeleted ==
    /\ [][/\ \A p \in Procs :
              (/\ pc[p] = "u_update" /\ pc'[p] # pc[p]
               /\ req[p].review \notin DOMAIN reviews)
              => reviews' = reviews
          /\ \A i \in ReviewIds :
              (i < nextReviewId /\ i \notin DOMAIN reviews) => i \notin DOMAIN reviews']_vars
    /\ [](\A p, q \in Procs :
            (/\ Quiet /\ LostToDelete(p)
             /\ Succeeded(q) /\ req[q].kind = "deleteReview"
             /\ req[q].review = req[p].review)
            => /\ req[p].review \notin DOMAIN reviews
               /\ local[p].bookId \in DOMAIN books => CountRight(local[p].bookId))

\* the update lost to the delete, both have responded, and the Book, which
\* stood at one Review, counts none
C28_Witness ==
    \E p, q \in Procs :
        /\ Quiet /\ LostToDelete(p) /\ resp[p] = "500"
        /\ Succeeded(q) /\ req[q].kind = "deleteReview"
        /\ req[q].review = req[p].review
        /\ req[p].review \notin DOMAIN reviews
        /\ local[p].bookId \in DOMAIN books
        /\ books[local[p].bookId].reviewCount = 0
        /\ Referencing(local[p].bookId) = {}

\* C29: for every totalPages >= 2 and every currentPage in 1..totalPages the
\* page numbers the Pagination component shows are a run of consecutive
\* integers within 1..totalPages, currentPage is one of them, and there are
\* exactly min(5, totalPages) of them; for totalPages <= 1 nothing is
\* rendered.
C29_WindowOfPages ==
    \A p \in Procs :
        pc[p] = "rendered" =>
          LET currentPage == local[p].pagination.currentPage
              totalPages == local[p].pagination.totalPages
              pages == local[p].pages
          IN /\ (totalPages >= 2 /\ currentPage \in 1..totalPages)
                => /\ resp[p] = "div"
                   /\ pages \subseteq 1..totalPages
                   /\ \A i, j \in pages, k \in 1..MaxPages :
                         (i < k /\ k < j) => k \in pages
                   /\ currentPage \in pages
                   /\ Cardinality(pages) = Min(5, totalPages)
             /\ totalPages <= 1 => resp[p] = "null"

\* the last of seven pages is shown with the window 3..7
C29_Witness ==
    \E p \in Procs :
        /\ pc[p] = "rendered" /\ resp[p] = "div"
        /\ local[p].pagination.currentPage = 7
        /\ local[p].pagination.totalPages = 7
        /\ local[p].pages = 3..7

====
